---- MODULE Spec2Model ----
(***************************************************************************)
(* Model of the two numeric pages of the analytics application:            *)
(*   - pages/System_of_Equations.py : the 2x2 linear system solver and     *)
(*     the geometry of the two plotted lines (SpecSys);                    *)
(*   - Linear_Programming.py        : build_model and the result handling  *)
(*     of main (SpecBuild, SpecLP).                                        *)
(*                                                                         *)
(* Numbers of the equation page are exact reals.  A real is written as a   *)
(* polynomial in eps (the tolerance 1e-9 of the page) with small integer   *)
(* coefficients: <<c0, c1, c2>> is c0 + c1*eps + c2*eps^2.  As long as     *)
(* every coefficient is smaller than 10^9 in magnitude, the order of two   *)
(* such numbers is decided by the first coefficient in which they differ,  *)
(* so values below, at and above the tolerance are all represented         *)
(* exactly.  A quotient is a pair n/d of such numbers with d > 0.          *)
(* Rounding and overflow of IEEE doubles are not modelled.                 *)
(***************************************************************************)
EXTENDS Integers, Sequences, FiniteSets, TLC

\* ------------------------------------------------------------------ bounds
\* Integer coefficients of the equations range over -1..MaxCoef.
MaxCoef == 2
\* Tiny coefficients k*eps for k in 1..MaxTiny.
MaxTiny == 2
\* Number of points np.linspace samples (400 in the page, fewer here).
NumSamples == 3
\* Decision variables of an LP: 1..MaxVars (1..10 in the page).
MaxVars == 2
\* Constraints of an LP: 0..MaxCons (0..30 in the page).
MaxCons == 1

\* ------------------------------------------------------- real arithmetic
\* Python's None where a number is expected: a quotient with no digits.
None == [n |-> <<>>, d |-> <<>>]

MaxOf(m, n) == IF m >= n THEN m ELSE n

Coef(p, i) == IF i >= 1 /\ i <= Len(p) THEN p[i] ELSE 0

RECURSIVE Trim(_)
Trim(p) ==
    IF Len(p) > 1 /\ p[Len(p)] = 0 THEN Trim(SubSeq(p, 1, Len(p) - 1)) ELSE p

PAdd(p, q) == Trim([i \in 1..MaxOf(Len(p), Len(q)) |-> Coef(p, i) + Coef(q, i)])

PNeg(p) == [i \in 1..Len(p) |-> 0 - p[i]]

PSub(p, q) == PAdd(p, PNeg(q))

RECURSIVE ConvSum(_, _, _, _)
ConvSum(p, q, k, i) ==
    IF i > Len(p) THEN 0
    ELSE p[i] * Coef(q, k - i + 1) + ConvSum(p, q, k, i + 1)

PMul(p, q) == Trim([k \in 1..(Len(p) + Len(q) - 1) |-> ConvSum(p, q, k, 1)])

RECURSIVE SignFrom(_, _)
SignFrom(p, i) ==
    IF i > Len(p) THEN 0
    ELSE IF p[i] > 0 THEN 1
    ELSE IF p[i] < 0 THEN -1
    ELSE SignFrom(p, i + 1)

\* Sign of a real: the sign of its lowest-order non-zero coefficient.
PSign(p) == SignFrom(p, 1)

PAbs(p) == IF PSign(p) < 0 THEN PNeg(p) ELSE p

PGt(p, q) == PSign(PSub(p, q)) > 0

Num(k) == <<k>>

\* eps = 1e-9
eps == <<0, 1>>

Tiny(k) == <<0, k>>

\* p / q for q # 0, as a quotient with positive denominator.
QDiv(p, q) ==
    IF PSign(q) < 0 THEN [n |-> PNeg(p), d |-> PNeg(q)] ELSE [n |-> p, d |-> q]

Q(k) == [n |-> Num(k), d |-> Num(1)]

QAdd(x, y) == [n |-> PAdd(PMul(x.n, y.d), PMul(y.n, x.d)), d |-> PMul(x.d, y.d)]

QSub(x, y) == [n |-> PSub(PMul(x.n, y.d), PMul(y.n, x.d)), d |-> PMul(x.d, y.d)]

QLe(x, y) == PSign(PSub(PMul(x.n, y.d), PMul(y.n, x.d))) <= 0

QEq(x, y) == PSign(PSub(PMul(x.n, y.d), PMul(y.n, x.d))) = 0

QMin(x, y) == IF QLe(x, y) THEN x ELSE y

QMax(x, y) == IF QLe(x, y) THEN y ELSE x

\* np.isfinite: a quotient is a finite number when its denominator is not 0.
IsFinite(x) == PSign(x.d) # 0

\* ------------------------------------------------------------ variables
VARIABLES
    a1, b1, c1, a2, b2, c2,      \* the six number inputs
    spc,                         \* position in the page script
    det, has_unique, x_sol, y_sol, message,
    x_min, x_max, x_vals,
    line1, line2, traces

sysvars == <<a1, b1, c1, a2, b2, c2, spc, det, has_unique, x_sol, y_sol,
             message, x_min, x_max, x_vals, line1, line2, traces>>

VARIABLES
    caller,                      \* "main" (the page) or "direct" (a call of build_model)
    var_names, obj_coeffs, constraints, sense, nonneg,
    lpc,                         \* position in main / build_model
    variables,                   \* build_model's dict: name -> lower bound
    model,                       \* the LpProblem being built
    solver_calls,                \* how often model.solve() was entered
    shown,                       \* what main has put on the page, in order
    reads,                       \* what main has read back from the solved model
    raised,                      \* detail of the exception raised, or "none"
    escaped                      \* an exception left the function uncaught

lpvars == <<caller, var_names, obj_coeffs, constraints, sense, nonneg, lpc,
            variables, model, solver_calls, shown, reads, raised, escaped>>

vars == <<sysvars, lpvars>>

\* ----------------------------------------------- System_of_Equations.py
ABVals == {Num(k) : k \in -1..MaxCoef} \cup {Tiny(k) : k \in 1..MaxTiny}

CVals == {Num(0), Num(5), Num(7), Num(10)}

Det(pa1, pb1, pa2, pb2) == PSub(PMul(pa1, pb2), PMul(pa2, pb1))

\* Plausible slip: "the determinant is not zero" instead of the tolerance test.
HasUnique_NonZero(d) == PSign(d) # 0

HasUnique(d) == PGt(PAbs(d), eps)

\* Plausible slip: the two products of the numerator exchanged.
XSol_Swapped(pb1, pc1, pb2, pc2, d) ==
    QDiv(PSub(PMul(pc2, pb1), PMul(pc1, pb2)), d)

XSol(pb1, pc1, pb2, pc2, d) == QDiv(PSub(PMul(pc1, pb2), PMul(pc2, pb1)), d)

YSol(pa1, pc1, pa2, pc2, d) == QDiv(PSub(PMul(pa1, pc2), PMul(pa2, pc1)), d)

margin == 5

XMin(unique, xs) ==
    IF unique /\ IsFinite(xs) THEN QMin(Q(-10), QSub(xs, Q(margin))) ELSE Q(-10)

\* Plausible slip: the upper end follows the solution without the max.
XMax_NoClamp(unique, xs) ==
    IF unique /\ IsFinite(xs) THEN QAdd(xs, Q(margin)) ELSE Q(10)

XMax(unique, xs) ==
    IF unique /\ IsFinite(xs) THEN QMax(Q(10), QAdd(xs, Q(margin))) ELSE Q(10)

\* np.linspace(lo, hi, num): lo + k*(hi - lo)/(num - 1), k = 0..num-1
Linspace(lo, hi, num) ==
    [k \in 1..num |->
        LET step == QSub(hi, lo)
        IN  [n |-> PAdd(PMul(lo.n, PMul(step.d, Num(num - 1))),
                        PMul(PMul(Num(k - 1), step.n), lo.d)),
             d |-> PMul(lo.d, PMul(step.d, Num(num - 1)))]]

\* Plausible slip: the vertical line placed at a / c instead of c / a.
line_points_Inverted(a, b, c, xv) ==
    IF PGt(PAbs(b), eps)
    THEN [x |-> xv,
          y |-> [k \in 1..Len(xv) |->
                    QDiv(PSub(PMul(c, xv[k].d), PMul(a, xv[k].n)),
                         PMul(b, xv[k].d))],
          vertical |-> FALSE, x_vert |-> None]
    ELSE IF PGt(PAbs(a), eps)
    THEN LET xvert == [n |-> a, d |-> Num(1)]
             yv == Linspace(Q(-10), Q(10), NumSamples)
         IN  [x |-> [k \in 1..Len(yv) |-> xvert], y |-> yv,
              vertical |-> TRUE, x_vert |-> xvert]
    ELSE [x |-> <<>>, y |-> <<>>, vertical |-> FALSE, x_vert |-> None]

line_points(a, b, c, xv) ==
    IF PGt(PAbs(b), eps)
    THEN [x |-> xv,
          y |-> [k \in 1..Len(xv) |->
                    QDiv(PSub(PMul(c, xv[k].d), PMul(a, xv[k].n)),
                         PMul(b, xv[k].d))],
          vertical |-> FALSE, x_vert |-> None]
    ELSE IF PGt(PAbs(a), eps)
    THEN LET xvert == QDiv(c, a)
             yv == Linspace(Q(-10), Q(10), NumSamples)
         IN  [x |-> [k \in 1..Len(yv) |-> xvert], y |-> yv,
              vertical |-> TRUE, x_vert |-> xvert]
    ELSE [x |-> <<>>, y |-> <<>>, vertical |-> FALSE, x_vert |-> None]

\* ------------------------------------------------- Linear_Programming.py
MinOf(m, n) == IF m <= n THEN m ELSE n

\* Plausible slip: the two senses exchanged.
SenseFlag_Inverted(s) == IF s = "Maximize" THEN "LpMinimize" ELSE "LpMaximize"

\* line 9
SenseFlag(s) == IF s = "Maximize" THEN "LpMaximize" ELSE "LpMinimize"

\* line 15: lb = 0 if nonneg else None (<<>> is "no lower bound")
LowBound(nn) == IF nn THEN <<0>> ELSE <<>>

\* lines 13-16: later entries of a repeated name replace earlier ones
MakeVars(names, nn) ==
    [v \in {names[i] : i \in 1..Len(names)} |-> LowBound(nn)]

RECURSIVE ZipSum(_, _, _, _)
ZipSum(coeffs, names, v, i) ==
    IF i > MinOf(Len(coeffs), Len(names)) THEN 0
    ELSE (IF names[i] = v THEN coeffs[i] ELSE 0) + ZipSum(coeffs, names, v, i + 1)

\* pl.lpSum(coeff * variables[name] for coeff, name in zip(coeffs, names)):
\* zip stops at the shorter of the two sequences.
LpSum(coeffs, names, vs) == [v \in DOMAIN vs |-> ZipSum(coeffs, names, v, 1)]

\* lines 29-34
ConstraintSense(relation) ==
    IF relation = "<=" THEN "<=" ELSE IF relation = ">=" THEN ">=" ELSE "=="

\* pl.LpStatus, the names of PuLP's status codes
LpStatus(code) ==
    CASE code = 1 -> "Optimal"
      [] code = 0 -> "Not Solved"
      [] code = -1 -> "Infeasible"
      [] code = -2 -> "Unbounded"
      [] code = -3 -> "Undefined"

StatusCodes == {1, 0, -1, -2, -3}

\* The objective can be improved without limit: some variable can move
\* forever in an improving direction (no variable ever has an upper bound).
CanImproveForever(m, vs) ==
    LET dir == IF m.sense = "LpMaximize" THEN 1 ELSE -1
    IN  \E v \in DOMAIN vs :
            \/ dir * m.objective[v] > 0
            \/ vs[v] = <<>> /\ dir * m.objective[v] < 0

\* The status the external solver can return.  Without constraints the
\* feasible region is the box of the lower bounds, so the status is decided by
\* the objective alone; with constraints the solver is a black box.
SolverStatuses(m, vs) ==
    IF Len(m.constraints) = 0
    THEN IF CanImproveForever(m, vs) THEN {-2} ELSE {1}
    ELSE StatusCodes

\* Plausible slip: only the named failure status is excluded.
IsOptimal_NotInfeasible(status) == status # "Infeasible"

\* line 172
IsOptimal(status) == status = "Optimal"

TryBlock == {"bm_new", "bm_vars", "bm_obj", "bm_cons", "status", "values",
             "objective", "warning"}

\* Plausible slip: the try block closed right after build_model returns.
Catches_BuildOnly(who, pc) ==
    who = "main" /\ pc \in {"bm_new", "bm_vars", "bm_obj", "bm_cons"}

\* lines 158-190: main's try block encloses the call of build_model and the
\* whole result section; build_model itself catches nothing.
Catches(who, pc) == who = "main" /\ pc \in TryBlock

NewModel == [sense |-> "", objective |-> <<>>, constraints |-> <<>>, status |-> 0]

NoVars == <<>>

DefaultName(i) == CASE i = 1 -> "x1" [] i = 2 -> "x2" [] i = 3 -> "x3" [] OTHER -> "x4"

DefaultNames(n) == [i \in 1..n |-> DefaultName(i)]

LPCoefs == {-1, 0, 1}

Relations == {"<=", ">=", "="}

\* rows as the page builds them: one coefficient per variable
PageRows(n) == {[i \in 1..n |-> k] : k \in {0, 1}}

PageConstraints(n) ==
    [row : PageRows(n), relation : Relations, rhs : {0, 1}]

SeqsUpTo(S, n) == UNION {[1..k -> S] : k \in 0..n}

LPIdle ==
    /\ caller = "main" /\ var_names = <<>> /\ obj_coeffs = <<>>
    /\ constraints = <<>> /\ sense = "Maximize" /\ nonneg = TRUE
    /\ lpc = "off" /\ variables = NoVars /\ model = NewModel
    /\ solver_calls = 0 /\ shown = <<>> /\ reads = {} /\ raised = "none"
    /\ escaped = FALSE

NoLine == [x |-> <<>>, y |-> <<>>, vertical |-> FALSE, x_vert |-> None]

InitSys ==
    /\ a1 \in ABVals /\ b1 \in ABVals /\ c1 \in CVals
    /\ a2 \in ABVals /\ b2 \in ABVals /\ c2 \in CVals
    /\ spc = "solve"
    /\ det = Num(0) /\ has_unique = FALSE /\ x_sol = None /\ y_sol = None
    /\ message = "none"
    /\ x_min = None /\ x_max = None /\ x_vals = <<>>
    /\ line1 = NoLine /\ line2 = NoLine /\ traces = <<>>
    /\ LPIdle

\* lines 97-114
Solve ==
    /\ spc = "solve"
    /\ LET d == Det(a1, b1, a2, b2)
           u == HasUnique(d)
       IN  /\ det' = d
           /\ has_unique' = u
           /\ x_sol' = IF u THEN XSol(b1, c1, b2, c2, d) ELSE None
           /\ y_sol' = IF u THEN YSol(a1, c1, a2, c2, d) ELSE None
           /\ message' = IF u THEN "success" ELSE "warning"
    /\ spc' = "range"
    /\ UNCHANGED <<a1, b1, c1, a2, b2, c2, x_min, x_max, x_vals, line1, line2,
                   traces, lpvars>>

\* lines 116-124
ChooseRange ==
    /\ spc = "range"
    /\ x_min' = XMin(has_unique, x_sol)
    /\ x_max' = XMax(has_unique, x_sol)
    /\ x_vals' = Linspace(x_min', x_max', NumSamples)
    /\ spc' = "lines"
    /\ UNCHANGED <<a1, b1, c1, a2, b2, c2, det, has_unique, x_sol, y_sol,
                   message, line1, line2, traces, lpvars>>

\* lines 141-164
DrawLines ==
    /\ spc = "lines"
    /\ line1' = line_points(a1, b1, c1, x_vals)
    /\ line2' = line_points(a2, b2, c2, x_vals)
    /\ traces' = (IF Len(line1'.x) > 0 THEN <<"Equation 1">> ELSE <<>>)
                 \o (IF Len(line2'.x) > 0 THEN <<"Equation 2">> ELSE <<>>)
    /\ spc' = "marker"
    /\ UNCHANGED <<a1, b1, c1, a2, b2, c2, det, has_unique, x_sol, y_sol,
                   message, x_min, x_max, x_vals, lpvars>>

\* lines 166-185
DrawMarker ==
    /\ spc = "marker"
    /\ traces' = IF has_unique /\ x_sol # None /\ y_sol # None
                    /\ IsFinite(x_sol) /\ IsFinite(y_sol)
                 THEN Append(traces, "Intersection")
                 ELSE traces
    /\ spc' = "shown"
    /\ UNCHANGED <<a1, b1, c1, a2, b2, c2, det, has_unique, x_sol, y_sol,
                   message, x_min, x_max, x_vals, line1, line2, lpvars>>

NextSys ==
    \/ Solve
    \/ ChooseRange
    \/ DrawLines
    \/ DrawMarker

SpecSys == InitSys /\ [][NextSys]_vars

SysIdle ==
    /\ a1 = Num(1) /\ b1 = Num(1) /\ c1 = Num(10)
    /\ a2 = Num(2) /\ b2 = Num(-1) /\ c2 = Num(0)
    /\ spc = "off"
    /\ det = Num(0) /\ has_unique = FALSE /\ x_sol = None /\ y_sol = None
    /\ message = "none"
    /\ x_min = None /\ x_max = None /\ x_vals = <<>>
    /\ line1 = NoLine /\ line2 = NoLine /\ traces = <<>>

\* ------------------------------------------------------------ build_model
\* An exception raised at position lpc: caught by main's handler when the
\* position is inside its try block, otherwise it leaves the function.
Raise(detail) ==
    /\ raised' = detail
    /\ IF Catches(caller, lpc)
       THEN lpc' = "except" /\ escaped' = FALSE
       ELSE lpc' = "crashed" /\ escaped' = TRUE

\* lines 9-10
CreateProblem ==
    /\ lpc = "bm_new"
    /\ model' = [NewModel EXCEPT !.sense = SenseFlag(sense)]
    /\ lpc' = "bm_vars"
    /\ UNCHANGED <<sysvars, caller, var_names, obj_coeffs, constraints, sense,
                   nonneg, variables, solver_calls, shown, reads, raised, escaped>>

\* lines 13-16
CreateVariables ==
    /\ lpc = "bm_vars"
    /\ variables' = MakeVars(var_names, nonneg)
    /\ lpc' = "bm_obj"
    /\ UNCHANGED <<sysvars, caller, var_names, obj_coeffs, constraints, sense,
                   nonneg, model, solver_calls, shown, reads, raised, escaped>>

\* lines 10-16: constructing the problem or a variable raises
CreateVariablesFails ==
    /\ lpc = "bm_vars"
    /\ Raise("model not built")
    /\ UNCHANGED <<sysvars, caller, var_names, obj_coeffs, constraints, sense,
                   nonneg, variables, model, solver_calls, shown, reads>>

\* lines 19-21
SetObjective ==
    /\ lpc = "bm_obj"
    /\ model' = [model EXCEPT !.objective = LpSum(obj_coeffs, var_names, variables)]
    /\ lpc' = "bm_cons"
    /\ UNCHANGED <<sysvars, caller, var_names, obj_coeffs, constraints, sense,
                   nonneg, variables, solver_calls, shown, reads, raised, escaped>>

\* lines 24-34, one pass of the loop
AddConstraint ==
    /\ lpc = "bm_cons"
    /\ Len(model.constraints) < Len(constraints)
    /\ LET idx == Len(model.constraints) + 1
           c == constraints[idx]
       IN  model' = [model EXCEPT !.constraints =
                        Append(@, [expr |-> LpSum(c.row, var_names, variables),
                                   sense |-> ConstraintSense(c.relation),
                                   rhs |-> c.rhs,
                                   name |-> idx])]
    /\ UNCHANGED <<sysvars, caller, var_names, obj_coeffs, constraints, sense,
                   nonneg, lpc, variables, solver_calls, shown, reads, raised,
                   escaped>>

\* lines 37-38: model.solve() returns with a status, then build_model returns
SolveModel ==
    /\ lpc = "bm_cons"
    /\ Len(model.constraints) = Len(constraints)
    /\ solver_calls' = solver_calls + 1
    /\ \E code \in SolverStatuses(model, variables) :
           model' = [model EXCEPT !.status = code]
    /\ lpc' = IF caller = "main" THEN "status" ELSE "returned"
    /\ UNCHANGED <<sysvars, caller, var_names, obj_coeffs, constraints, sense,
                   nonneg, variables, shown, reads, raised, escaped>>

\* line 37: model.solve() raises (the solver cannot be run, or rejects the model)
SolveFails ==
    /\ lpc = "bm_cons"
    /\ Len(model.constraints) = Len(constraints)
    /\ solver_calls' = solver_calls + 1
    /\ Raise("solver failed")
    /\ UNCHANGED <<sysvars, caller, var_names, obj_coeffs, constraints, sense,
                   nonneg, variables, model, shown, reads>>

\* ------------------------------------------------------------------- main
Show(kind, text) == Append(shown, [kind |-> kind, text |-> text])

\* lines 157-159: the button is pressed and build_model is called
PressSolve ==
    /\ lpc = "button"
    /\ lpc' = "bm_new"
    /\ UNCHANGED <<sysvars, caller, var_names, obj_coeffs, constraints, sense,
                   nonneg, variables, model, solver_calls, shown, reads, raised,
                   escaped>>

\* lines 167-172
ShowStatus ==
    /\ lpc = "status"
    /\ reads' = reads \cup {"status"}
    /\ shown' = Append(Show("header", "Results"),
                       [kind |-> "status", text |-> LpStatus(model.status)])
    /\ lpc' = IF IsOptimal(LpStatus(model.status)) THEN "values" ELSE "warning"
    /\ UNCHANGED <<sysvars, caller, var_names, obj_coeffs, constraints, sense,
                   nonneg, variables, model, solver_calls, raised, escaped>>

\* lines 174-179
ShowValues ==
    /\ lpc = "values"
    /\ reads' = reads \cup {"values"}
    /\ shown' = Append(Show("subheader", "Decision variable values"),
                       [kind |-> "table", text |-> "Value"])
    /\ lpc' = "objective"
    /\ UNCHANGED <<sysvars, caller, var_names, obj_coeffs, constraints, sense,
                   nonneg, variables, model, solver_calls, raised, escaped>>

\* lines 174-175: reading the values raises, before the table is rendered
ReadValuesFails ==
    /\ lpc = "values"
    /\ reads' = reads \cup {"values"}
    /\ Raise("values unreadable")
    /\ UNCHANGED <<sysvars, caller, var_names, obj_coeffs, constraints, sense,
                   nonneg, variables, model, solver_calls, shown>>

\* lines 181-182
ShowObjective ==
    /\ lpc = "objective"
    /\ reads' = reads \cup {"objective"}
    /\ shown' = Append(Show("subheader", "Objective value"),
                       [kind |-> "objective", text |-> "value"])
    /\ lpc' = "done"
    /\ UNCHANGED <<sysvars, caller, var_names, obj_coeffs, constraints, sense,
                   nonneg, variables, model, solver_calls, raised, escaped>>

\* lines 181-182: pl.value(model.objective) raises, after the table and the
\* subheader of the objective were rendered
ReadObjectiveFails ==
    /\ lpc = "objective"
    /\ reads' = reads \cup {"objective"}
    /\ shown' = Show("subheader", "Objective value")
    /\ Raise("objective unreadable")
    /\ UNCHANGED <<sysvars, caller, var_names, obj_coeffs, constraints, sense,
                   nonneg, variables, model, solver_calls>>

\* lines 184-188
ShowWarning ==
    /\ lpc = "warning"
    /\ shown' = Show("warning", "Model status is not 'Optimal'")
    /\ lpc' = "done"
    /\ UNCHANGED <<sysvars, caller, var_names, obj_coeffs, constraints, sense,
                   nonneg, variables, model, solver_calls, reads, raised, escaped>>

\* lines 190-191
HandleError ==
    /\ lpc = "except"
    /\ shown' = Show("error", raised)
    /\ lpc' = "done"
    /\ UNCHANGED <<sysvars, caller, var_names, obj_coeffs, constraints, sense,
                   nonneg, variables, model, solver_calls, reads, raised, escaped>>

\* The page as rendered before the button is pressed (lines 53-154): the
\* widgets hold the user's entries; one coefficient is asked per variable and
\* the relation comes from the select box.
InitLP ==
    /\ SysIdle
    /\ caller = "main"
    /\ \E n \in 1..MaxVars :
           /\ var_names = DefaultNames(n)
           /\ obj_coeffs \in [1..n -> LPCoefs]
           /\ constraints \in SeqsUpTo(PageConstraints(n), MaxCons)
    /\ sense \in {"Maximize", "Minimize"}
    /\ nonneg \in BOOLEAN
    /\ lpc = "button" /\ variables = NoVars /\ model = NewModel
    /\ solver_calls = 0 /\ shown = <<>> /\ reads = {} /\ raised = "none"
    /\ escaped = FALSE

NextLP ==
    \/ PressSolve
    \/ CreateProblem
    \/ CreateVariables
    \/ CreateVariablesFails
    \/ SetObjective
    \/ AddConstraint
    \/ SolveModel
    \/ SolveFails
    \/ ShowStatus
    \/ ShowValues
    \/ ReadValuesFails
    \/ ShowObjective
    \/ ReadObjectiveFails
    \/ ShowWarning
    \/ HandleError

SpecLP == InitLP /\ [][NextLP]_vars

\* A direct call build_model(var_names, obj_coeffs, constraints, sense, nonneg):
\* the function accepts any sequences and any relation token.
DirectRows == SeqsUpTo({0, 1}, MaxVars + 1)

DirectConstraints ==
    [row : DirectRows, relation : Relations \cup {"<"}, rhs : {1}]

InitBuild ==
    /\ SysIdle
    /\ caller = "direct"
    /\ var_names \in {DefaultNames(n) : n \in 1..MaxVars}
    /\ obj_coeffs \in SeqsUpTo({0, 1}, MaxVars + 1)
    /\ constraints \in SeqsUpTo(DirectConstraints, MaxCons)
    /\ sense \in {"Maximize", "Minimize"}
    /\ nonneg \in BOOLEAN
    /\ lpc = "bm_new" /\ variables = NoVars /\ model = NewModel
    /\ solver_calls = 0 /\ shown = <<>> /\ reads = {} /\ raised = "none"
    /\ escaped = FALSE

NextBuild ==
    \/ CreateProblem
    \/ CreateVariables
    \/ CreateVariablesFails
    \/ SetObjective
    \/ AddConstraint
    \/ SolveModel
    \/ SolveFails

SpecBuild == InitBuild /\ [][NextBuild]_vars

\* ------------------------------------------- properties of the equation page
Solved == spc # "solve"

Ranged == spc \in {"lines", "marker", "shown"}

Drawn == spc \in {"marker", "shown"}

\* p * x for a real p and a quotient x
QScale(p, x) == [n |-> PMul(p, x.n), d |-> x.d]

QOf(p) == [n |-> p, d |-> Num(1)]

\* |p| > eps, stated without the absolute value
ExceedsEps(p) == PSign(PSub(p, eps)) = 1 \/ PSign(PAdd(p, eps)) = -1

\* C1: the solver reports a unique solution exactly when |a1*b2 - a2*b1| > eps;
\* without one (parallel and coincident lines alike) it has no x and no y and
\* shows the one warning, whatever the right-hand sides are.
C1_UniqueIffDetExceedsEps ==
    Solved =>
        /\ has_unique = ExceedsEps(PSub(PMul(a1, b2), PMul(a2, b1)))
        /\ has_unique => message = "success"
        /\ ~has_unique => (x_sol = None /\ y_sol = None /\ message = "warning")

\* the coincident lines x + y = 5, 2x + 2y = 10 after the solve step
C1_Witness ==
    /\ Solved
    /\ a1 = Num(1) /\ b1 = Num(1) /\ c1 = Num(5)
    /\ a2 = Num(2) /\ b2 = Num(2) /\ c2 = Num(10)
    /\ ~has_unique /\ message = "warning"

\* C2: a reported unique solution is x = (c1*b2 - c2*b1)/det,
\* y = (a1*c2 - a2*c1)/det with det = a1*b2 - a2*b1, and it satisfies
\* a1*x + b1*y = c1 and a2*x + b2*y = c2.
C2_CramerSolvesBoth ==
    (Solved /\ has_unique) =>
        LET d == PSub(PMul(a1, b2), PMul(a2, b1))
        IN  /\ PSign(d) # 0
            /\ PMul(x_sol.n, d) = PMul(PSub(PMul(c1, b2), PMul(c2, b1)), x_sol.d)
            /\ PMul(y_sol.n, d) = PMul(PSub(PMul(a1, c2), PMul(a2, c1)), y_sol.d)
            /\ QEq(QAdd(QScale(a1, x_sol), QScale(b1, y_sol)), QOf(c1))
            /\ QEq(QAdd(QScale(a2, x_sol), QScale(b2, y_sol)), QOf(c2))

\* x + y = 10, 2x - y = 0 solved to x = 10/3, y = 20/3
C2_Witness ==
    /\ Solved /\ has_unique
    /\ a1 = Num(1) /\ b1 = Num(1) /\ c1 = Num(10)
    /\ a2 = Num(2) /\ b2 = Num(-1) /\ c2 = Num(0)
    /\ QEq(x_sol, [n |-> Num(10), d |-> Num(3)])
    /\ QEq(y_sol, [n |-> Num(20), d |-> Num(3)])

LineClassified(a, b, c, L) ==
    IF ExceedsEps(b)
    THEN /\ ~L.vertical /\ L.x_vert = None
         /\ L.x = x_vals /\ Len(L.y) = Len(L.x) /\ Len(L.x) = NumSamples
         /\ \A k \in 1..Len(L.x) :
                QEq(QAdd(QScale(a, L.x[k]), QScale(b, L.y[k])), QOf(c))
    ELSE IF ExceedsEps(a)
    THEN /\ L.vertical
         /\ PMul(L.x_vert.n, a) = PMul(c, L.x_vert.d)
         /\ Len(L.y) = Len(L.x) /\ Len(L.x) = NumSamples
         /\ \A k \in 1..Len(L.x) : QEq(L.x[k], L.x_vert)
         /\ QEq(L.y[1], Q(-10)) /\ QEq(L.y[Len(L.y)], Q(10))
    ELSE L.x = <<>> /\ L.y = <<>> /\ ~L.vertical

\* C3: line_points returns, for |b| > eps, a non-vertical line over the x-domain
\* whose sampled points all satisfy a*x + b*y = c; else, for |a| > eps, a
\* vertical line at c/a with every sampled x equal to c/a; else empty x and y
\* with is_vertical False, for any c.
C3_LinePointsCases ==
    Drawn => (LineClassified(a1, b1, c1, line1) /\ LineClassified(a2, b2, c2, line2))

\* equation 1 is x = 5 (vertical), equation 2 is 0 = c2 (degenerate)
C3_Witness ==
    /\ Drawn
    /\ a1 = Num(1) /\ b1 = Num(0) /\ c1 = Num(5)
    /\ line1.vertical /\ QEq(line1.x_vert, Q(5))
    /\ a2 = Num(0) /\ b2 = Tiny(1) /\ line2.x = <<>>

\* C9: the x-domain is [-10, 10] without a unique solution and
\* [min(-10, x_sol - 5), max(10, x_sol + 5)] with one, so it always contains
\* [-10, 10] and, with a unique solution, x_sol with 5 units on each side.
C9_DomainAroundSolution ==
    Ranged =>
        /\ QEq(x_vals[1], x_min) /\ QEq(x_vals[Len(x_vals)], x_max)
        /\ QLe(x_min, Q(-10)) /\ QLe(Q(10), x_max)
        /\ ~has_unique => (QEq(x_min, Q(-10)) /\ QEq(x_max, Q(10)))
        /\ has_unique =>
              /\ QLe(x_min, QSub(x_sol, Q(5))) /\ QLe(QAdd(x_sol, Q(5)), x_max)
              /\ QEq(x_min, Q(-10)) \/ QEq(x_min, QSub(x_sol, Q(5)))
              /\ QEq(x_max, Q(10)) \/ QEq(x_max, QAdd(x_sol, Q(5)))

\* a unique solution right of 10, so the domain is widened to x_sol + 5
C9_Witness ==
    /\ Ranged /\ has_unique
    /\ ~QLe(x_sol, Q(10))
    /\ QEq(x_max, QAdd(x_sol, Q(5))) /\ QEq(x_min, Q(-10))

\* C10: whenever the intersection marker is drawn, both lines are drawn too,
\* so the chart holds all three traces.
C10_MarkerWithBothLines ==
    (spc = "shown" /\ \E i \in 1..Len(traces) : traces[i] = "Intersection")
        => traces = <<"Equation 1", "Equation 2", "Intersection">>

\* -------------------------------------------------- properties of the LP page
HasShown(kind) == \E i \in 1..Len(shown) : shown[i].kind = kind

StatusShown(text) == \E i \in 1..Len(shown) : shown[i] = [kind |-> "status", text |-> text]

\* model.solve() has returned a status to main
SolverReturned == solver_calls = 1 /\ raised # "solver failed"

ValuesProduced == HasShown("table") /\ HasShown("objective")

\* C6: for a solve request that raises no exception, the status is displayed
\* and the table of values and the objective value are produced exactly when
\* the status is Optimal; for every other status the warning is shown and no
\* variable value or objective value is read or displayed.
C6_ValuesIffOptimal ==
    /\ (HasShown("table") \/ HasShown("objective") \/ reads \cap {"values", "objective"} # {})
          => (StatusShown("Optimal") /\ ~HasShown("warning"))
    /\ HasShown("warning")
          => /\ \E t \in {"Infeasible", "Unbounded", "Undefined", "Not Solved"} :
                    StatusShown(t)
             /\ reads = {"status"}
    /\ (lpc = "done" /\ raised = "none")
          => /\ StatusShown(LpStatus(model.status))
             /\ (LpStatus(model.status) = "Optimal") = ValuesProduced
             /\ (LpStatus(model.status) # "Optimal") = HasShown("warning")

\* a finished request whose status is Unbounded: status and warning, no table
C6_Witness ==
    /\ lpc = "done" /\ raised = "none"
    /\ shown = <<[kind |-> "header", text |-> "Results"],
                 [kind |-> "status", text |-> "Unbounded"],
                 [kind |-> "warning", text |-> "Model status is not 'Optimal'"]>>

UnconstrainedMaximize ==
    /\ caller = "main" /\ SolverReturned
    /\ constraints = <<>> /\ nonneg /\ sense = "Maximize"
    /\ \A i \in 1..Len(obj_coeffs) : obj_coeffs[i] >= 0

C8_NoTableOnFailure ==
    /\ ~escaped
    /\ (lpc = "done" /\ raised # "none")
          => /\ shown[Len(shown)] = [kind |-> "error", text |-> raised]
             /\ ~HasShown("table")

\* C8, amended: every failure raised while building, solving or reading back
\* is caught in main and ends in the displayed error with its detail; the
\* results table is on the page with the error only when the failure was
\* raised reading the objective value, after the table was rendered.
C8_FailuresCaught ==
    /\ ~escaped /\ lpc # "crashed"
    /\ raised # "none" => lpc \in {"except", "done"}
    /\ (lpc = "done" /\ raised # "none")
          => /\ shown[Len(shown)] = [kind |-> "error", text |-> raised]
             /\ ~HasShown("objective") /\ ~HasShown("warning")
             /\ HasShown("table") = (raised = "objective unreadable")

\* the solver failed and the page ends with the error carrying its detail
C8_Witness ==
    /\ lpc = "done" /\ raised = "solver failed"
    /\ shown = <<[kind |-> "error", text |-> "solver failed"]>>

\* ---------------------------------------------- properties of build_model
LengthMismatch ==
    \/ Len(obj_coeffs) # Len(var_names)
    \/ \E i \in 1..Len(constraints) : Len(constraints[i].row) # Len(var_names)

BadRelation == \E i \in 1..Len(constraints) : constraints[i].relation \notin Relations

\* C4: with obj_coeffs or a constraint row of another length than var_names,
\* build_model fails before the solver is invoked: it never reaches
\* model.solve() and never returns a model.
C4_LengthMismatchRejected ==
    LengthMismatch => (solver_calls = 0 /\ lpc # "returned")

\* C5: with a relation token that is none of <=, >=, =, build_model fails
\* before the solver is invoked, and the token is not turned into one of the
\* three relations.
C5_BadRelationRejected ==
    BadRelation =>
        /\ solver_calls = 0 /\ lpc # "returned"
        /\ \A i \in 1..Len(model.constraints) : constraints[i].relation \in Relations

====
